---------------------------- MODULE Spec2Model ----------------------------
(***************************************************************************)
(* Model of capcut_phrase_highlight_stable.py: word-level timestamps are   *)
(* normalised (merge_phrases), grouped into phrases (group_words), wrapped *)
(* on two lines (choose_wrap_index), rendered with one highlighted word    *)
(* (build_highlight_phrase) and written as one Dialogue event per word     *)
(* (main).                                                                 *)
(*                                                                         *)
(* Conventions.  A Python str is a sequence of one-character strings, so   *)
(* that len(), " ".join(), lower(), strip() and rstrip() are computed and  *)
(* not assumed.  A Python list is a sequence; Python's 0-based index i is  *)
(* kept in the operators' parameters and element i is read as s[i + 1].    *)
(* Times are exact decimals counted in milliseconds (0.65 s is 650).       *)
(***************************************************************************)
EXTENDS Integers, Sequences, FiniteSets, TLC

VARIABLES
    pc,            \* position of the running program / harness
    args,          \* arguments of the pure function under check
    ret,           \* its result
    ret2,          \* result of applying merge_phrases to its own result
    raw,           \* main: the words the recognizer returned
    all_words,     \* main: all_words
    groups,        \* main: groups
    gi,            \* main: index of the group being written (0-based)
    wi,            \* main: index i of the word being written (0-based)
    events,        \* main: the Dialogue events written to the file so far
    min_word_dur,  \* main: min_word_dur
    end_tail       \* main: end_tail

vars == <<pc, args, ret, ret2, raw, all_words, groups, gi, wi, events,
          min_word_dur, end_tail>>

\* Optional[x]: None is the empty sequence, a value x is <<x>>
None == <<>>
Some(x) == <<x>>
Idle == <<>>

SeqsUpTo(S, n) == UNION {[1..k -> S] : k \in 0..n}

Max(a, b) == IF a >= b THEN a ELSE b
Abs(a) == IF a >= 0 THEN a ELSE 0 - a

RECURSIVE Flatten(_)
Flatten(ss) == IF ss = <<>> THEN <<>> ELSE Head(ss) \o Flatten(Tail(ss))

(***************************************************************************)
(* Python str operations                                                   *)
(***************************************************************************)
Whitespace == {" ", "\t", "\n", "\r"}

\* str.lower(), on the letters the model's words use
LowerChar(c) ==
    CASE c = "A" -> "a"
      [] c = "C" -> "c"
      [] c = "P" -> "p"
      [] c = "U" -> "u"
      [] c = "T" -> "t"
      [] c = "N" -> "n"
      [] OTHER -> c

StrLower(s) == [k \in 1..Len(s) |-> LowerChar(s[k])]

RECURSIVE RStrip(_)
RStrip(s) ==
    IF s = <<>> THEN <<>>
    ELSE IF s[Len(s)] \in Whitespace THEN RStrip(SubSeq(s, 1, Len(s) - 1))
    ELSE s

RECURSIVE LStrip(_)
LStrip(s) ==
    IF s = <<>> THEN <<>>
    ELSE IF Head(s) \in Whitespace THEN LStrip(Tail(s))
    ELSE s

Strip(s) == LStrip(RStrip(s))

\* " ".join(words)
RECURSIVE JoinSpace(_)
JoinSpace(words) ==
    IF words = <<>> THEN <<>>
    ELSE IF Len(words) = 1 THEN words[1]
    ELSE words[1] \o <<" ">> \o JoinSpace(Tail(words))

\* "".join(parts)
Concat(parts) == Flatten(parts)

clean_word(w) == Strip(w)

(***************************************************************************)
(* merge_phrases                                                           *)
(***************************************************************************)
TxtA == <<"a">>
TxtCap == <<"c", "a", "p">>
TxtCut == <<"c", "u", "t">>
TxtCapCut == <<"C", "a", "p", "C", "u", "t">>

\* a mutant of MergedWord: the merged word ends where the first matched word ends
MergedWordFirstEnd(first, last) ==
    [word |-> TxtCapCut, start |-> first.start, end |-> first.end]

\* a mutant of MergedWord: the merged word keeps the first matched word's text
MergedWordFirstText(first, last) ==
    [word |-> first.word, start |-> first.start, end |-> last.end]

\* the word both merge rules append
MergedWord(first, last) ==
    [word |-> TxtCapCut, start |-> first.start, end |-> last.end]

\* the condition of the rule "a" + "cap" + "cut", at 0-based position i
Match3(words, i) ==
    /\ i + 2 < Len(words)
    /\ StrLower(words[i + 1].word) = TxtA
    /\ StrLower(words[i + 2].word) = TxtCap
    /\ StrLower(words[i + 3].word) = TxtCut

\* the condition of the fallback rule "cap" + "cut", at 0-based position i
Match2(words, i) ==
    /\ i + 1 < Len(words)
    /\ StrLower(words[i + 1].word) = TxtCap
    /\ StrLower(words[i + 2].word) = TxtCut

\* the while loop, from position i with the output list out
RECURSIVE merge_loop(_, _, _)
merge_loop(words, i, out) ==
    IF ~(i < Len(words)) THEN out
    ELSE IF Match3(words, i)
         THEN merge_loop(words, i + 3,
                         Append(out, MergedWord(words[i + 1], words[i + 3])))
    ELSE IF Match2(words, i)
         THEN merge_loop(words, i + 2,
                         Append(out, MergedWord(words[i + 1], words[i + 2])))
    ELSE merge_loop(words, i + 1, Append(out, words[i + 1]))

merge_phrases(words) == merge_loop(words, 0, <<>>)

(***************************************************************************)
(* group_words                                                             *)
(***************************************************************************)
\* a mutant of Gap: the operands of the subtraction are exchanged
GapReversed(start, last_end) ==
    IF last_end # None THEN last_end[1] - start ELSE 0

\* gap = (start - last_end) if last_end is not None else 0.0
Gap(start, last_end) ==
    IF last_end # None THEN start - last_end[1] ELSE 0

\* would_len = cur_len + (len(txt) + (1 if cur else 0))
WouldLen(cur, cur_len, txt) ==
    cur_len + (Len(txt) + (IF cur # <<>> THEN 1 ELSE 0))

\* a mutant of MustClose: the word cap is tested with > instead of >=
MustCloseOffByOne(cur, gap, would_len, max_words, max_chars, max_gap) ==
    /\ cur # <<>>
    /\ (gap > max_gap \/ Len(cur) > max_words \/ would_len > max_chars)

\* if cur and (gap > max_gap or len(cur) >= max_words or would_len > max_chars)
MustClose(cur, gap, would_len, max_words, max_chars, max_gap) ==
    /\ cur # <<>>
    /\ (gap > max_gap \/ Len(cur) >= max_words \/ would_len > max_chars)

\* one iteration of the for loop, on word w
group_step(st, w, max_words, max_chars, max_gap) ==
    LET txt == w.word
        start == w.start
        end == w.end
        gap == Gap(start, st.last_end)
        would_len == WouldLen(st.cur, st.cur_len, txt)
        close == MustClose(st.cur, gap, would_len, max_words, max_chars, max_gap)
        groups1 == IF close THEN Append(st.groups, st.cur) ELSE st.groups
        cur1 == IF close THEN <<>> ELSE st.cur
        cur_len1 == IF close THEN 0 ELSE st.cur_len
    IN  [groups |-> groups1,
         cur |-> Append(cur1, [word |-> txt, start |-> start, end |-> end]),
         cur_len |-> cur_len1 + Len(txt) + (IF cur_len1 # 0 THEN 1 ELSE 0),
         last_end |-> Some(end)]

\* the for loop over words[k..], k 1-based
RECURSIVE group_loop(_, _, _, _, _, _)
group_loop(st, words, k, max_words, max_chars, max_gap) ==
    IF k > Len(words) THEN st
    ELSE group_loop(group_step(st, words[k], max_words, max_chars, max_gap),
                    words, k + 1, max_words, max_chars, max_gap)

\* a mutant of FinalGroups: the open group is not appended at the end of input
FinalGroupsNoFlush(st) == st.groups

\* a mutant of FinalGroups: the open group is appended even when it is empty
FinalGroupsAlways(st) == Append(st.groups, st.cur)

\* if cur: groups.append(cur); return groups
FinalGroups(st) ==
    IF st.cur # <<>> THEN Append(st.groups, st.cur) ELSE st.groups

group_words(words, max_words, max_chars, max_gap) ==
    FinalGroups(group_loop([groups |-> <<>>, cur |-> <<>>, cur_len |-> 0,
                            last_end |-> None],
                           words, 1, max_words, max_chars, max_gap))

(***************************************************************************)
(* Checking merge_phrases: every word list up to MaxMergeLen words over    *)
(* MergeTexts; word k is spoken from 100 k ms for 40 ms.                   *)
(***************************************************************************)
MaxMergeLen == 5

MergeTexts ==
    { <<"a">>, <<"A">>, <<"c", "a", "p">>, <<"c", "u", "t">>,
      <<"C", "U", "T">>, <<"i", "s">> }

Timed(ts) ==
    [k \in 1..Len(ts) |->
        [word |-> ts[k], start |-> 100 * (k - 1), end |-> 100 * (k - 1) + 40]]

InitFn(p, a) ==
    /\ pc = p
    /\ args = a
    /\ ret = Idle
    /\ ret2 = Idle
    /\ raw = <<>>
    /\ all_words = <<>>
    /\ groups = <<>>
    /\ gi = 0
    /\ wi = 0
    /\ events = <<>>
    /\ min_word_dur = 0
    /\ end_tail = 0

mainVars == <<raw, all_words, groups, gi, wi, events, min_word_dur, end_tail>>

InitMerge == \E ts \in SeqsUpTo(MergeTexts, MaxMergeLen) : InitFn("merge", Timed(ts))

CallMerge ==
    /\ pc = "merge"
    /\ ret' = merge_phrases(args)
    /\ pc' = "merged"
    /\ UNCHANGED <<args, ret2, mainVars>>

CallMergeAgain ==
    /\ pc = "merged"
    /\ ret2' = merge_phrases(ret)
    /\ pc' = "merged_twice"
    /\ UNCHANGED <<args, ret, mainVars>>

NextMerge == CallMerge \/ CallMergeAgain

SpecMerge == InitMerge /\ [][NextMerge]_vars


(***************************************************************************)
(* Claims about merge_phrases                                              *)
(***************************************************************************)
\* the run texts[1..n] starts at the head of s, compared case-insensitively
RunAtHead(s, texts) ==
    /\ Len(s) >= Len(texts)
    /\ \A k \in 1..Len(texts) : StrLower(s[k].word) = texts[k]

\* the claimed result: the left-to-right scan that replaces a run
\* a, cap, cut (else a run cap, cut) by one CapCut word spanning the run
RECURSIVE ClaimedMerge(_)
ClaimedMerge(s) ==
    IF s = <<>> THEN <<>>
    ELSE LET n == IF RunAtHead(s, <<TxtA, TxtCap, TxtCut>>) THEN 3
                  ELSE IF RunAtHead(s, <<TxtCap, TxtCut>>) THEN 2
                  ELSE 0
         IN  IF n = 0 THEN <<Head(s)>> \o ClaimedMerge(Tail(s))
             ELSE <<[word |-> TxtCapCut, start |-> s[1].start, end |-> s[n].end]>>
                      \o ClaimedMerge(SubSeq(s, n + 1, Len(s)))

Txt_is == <<"i", "s">>
Txt_great == <<"g", "r", "e", "a", "t">>

\* the example of the specification: a cap cut is great -> CapCut is great
MergeExample ==
    merge_phrases(Timed(<<TxtA, TxtCap, TxtCut, Txt_is, Txt_great>>)) =
        << [word |-> TxtCapCut, start |-> 0, end |-> 240],
           [word |-> Txt_is, start |-> 300, end |-> 340],
           [word |-> Txt_great, start |-> 400, end |-> 440] >>

\* C4: merge_phrases returns the left-to-right scan in which a
\* case-insensitive run a, cap, cut (else cap, cut) is replaced by one word
\* CapCut that starts where the run's first word starts and ends where its
\* last word ends, every other word passing through unchanged and in order;
\* the result is never longer than the input.
C4_MergeScan ==
    /\ MergeExample
    /\ pc \in {"merged", "merged_twice"} =>
          /\ ret = ClaimedMerge(args)
          /\ Len(ret) <= Len(args)

C4_Witness ==
    /\ pc = "merged"
    /\ args = Timed(<<<<"A">>, TxtCap, <<"C", "U", "T">>, TxtCap, TxtCut>>)
    /\ ret = << [word |-> TxtCapCut, start |-> 0, end |-> 240],
                [word |-> TxtCapCut, start |-> 300, end |-> 440] >>

NoMatchIn(s) == \A i \in 0..(Len(s) - 1) : ~Match3(s, i) /\ ~Match2(s, i)

\* C5: normalisation is idempotent: the result of merge_phrases holds no run
\* a merge rule matches, merge_phrases of the result is the result, and an
\* input with no matching run is returned unchanged.
C5_MergeIdempotent ==
    /\ pc \in {"merged", "merged_twice"} =>
          /\ NoMatchIn(ret)
          /\ NoMatchIn(args) => ret = args
    /\ pc = "merged_twice" => ret2 = ret

C5_Witness ==
    /\ pc = "merged_twice"
    /\ args = Timed(<<TxtCap, TxtCut, TxtCut, TxtA>>)
    /\ Len(ret) = 3
    /\ ret2 = ret


(***************************************************************************)
(* Checking group_words: every list up to MaxGroupLen words over           *)
(* GroupWordSet (non-empty texts, as clean_word and merge_phrases leave    *)
(* them), under every combination of the three thresholds below, the       *)
(* defaults 7, 28 and 0.65 s among them.                                   *)
(***************************************************************************)
MaxGroupLen == 4

DefaultMaxWords == 7
DefaultMaxChars == 28
DefaultMaxGap == 650

GroupTexts == { <<"a">>, <<"q", "u", "i", "c", "k">> }
GroupStarts == {0, 100, 1000}

\* every word lasts 50 ms
GroupWordSet ==
    {[word |-> t, start |-> b, end |-> b + 50] : t \in GroupTexts, b \in GroupStarts}

MaxWordsSet == {0, 2, DefaultMaxWords}
MaxCharsSet == {3, 7, DefaultMaxChars}
MaxGapSet == {0, DefaultMaxGap}

InitGroup ==
    \E ws \in SeqsUpTo(GroupWordSet, MaxGroupLen), mw \in MaxWordsSet,
       mc \in MaxCharsSet, mg \in MaxGapSet :
        InitFn("group", [words |-> ws, max_words |-> mw, max_chars |-> mc,
                         max_gap |-> mg])

CallGroup ==
    /\ pc = "group"
    /\ ret' = group_words(args.words, args.max_words, args.max_chars, args.max_gap)
    /\ pc' = "grouped"
    /\ UNCHANGED <<args, ret2, mainVars>>

NextGroup == CallGroup

SpecGroup == InitGroup /\ [][NextGroup]_vars

(***************************************************************************)
(* Claims about group_words                                                *)
(***************************************************************************)
\* C1: the groups concatenated in order are exactly the input records, and
\* no group is empty.
C1_GroupsPartitionInput ==
    pc = "grouped" =>
        /\ Flatten(ret) = args.words
        /\ \A g \in 1..Len(ret) : ret[g] # <<>>

C1_Witness ==
    /\ pc = "grouped"
    /\ Len(args.words) = 4
    /\ Len(ret) = 3
    /\ Len(ret[2]) = 2

WordTexts(g) == [k \in 1..Len(g) |-> g[k].word]

\* the original statement of C2: every group has at most max_words words and
\* at most max_chars characters when joined by single spaces, except that a
\* group of exactly one word longer than max_chars may exceed the character cap
C2_CapsAsClaimed ==
    pc = "grouped" =>
        \A g \in 1..Len(ret) :
            /\ Len(ret[g]) <= args.max_words
            /\ \/ Len(JoinSpace(WordTexts(ret[g]))) <= args.max_chars
               \/ Len(ret[g]) = 1

\* C2 (amended): every group of two or more words has at most max_words
\* words and at most max_chars characters when joined by single spaces; a
\* group of exactly one word may exceed either cap (the word cap when
\* max_words is below 1, the character cap when the word is longer than
\* max_chars).
C2_CapsExceptSingleWord ==
    pc = "grouped" =>
        \A g \in 1..Len(ret) :
            \/ Len(ret[g]) = 1
            \/ /\ Len(ret[g]) <= args.max_words
               /\ Len(JoinSpace(WordTexts(ret[g]))) <= args.max_chars

C2_Witness ==
    /\ pc = "grouped"
    /\ args.max_words = 2
    /\ args.max_chars = 7
    /\ Len(args.words) = 4
    /\ \E g \in 1..Len(ret) : Len(ret[g]) = 2 /\ Len(JoinSpace(WordTexts(ret[g]))) = 7
    /\ \E g \in 1..Len(ret) : Len(ret[g]) = 2 /\ Len(JoinSpace(WordTexts(ret[g]))) = 3

\* the 1-based position in the input of word j of group g
PosInInput(gs, g, j) == Len(Flatten(SubSeq(gs, 1, g - 1))) + j

\* C3: two words that are adjacent inside one group are never separated by
\* a pause (next start minus previous end) greater than max_gap.
C3_NoLongPauseInsideGroup ==
    pc = "grouped" =>
        \A g \in 1..Len(ret) : \A j \in 1..(Len(ret[g]) - 1) :
            LET k == PosInInput(ret, g, j)
            IN  ~(args.words[k + 1].start - args.words[k].end > args.max_gap)

C3_Witness ==
    /\ pc = "grouped"
    /\ args.max_words = DefaultMaxWords
    /\ args.max_chars = DefaultMaxChars
    /\ args.max_gap = DefaultMaxGap
    /\ Len(args.words) = 3
    /\ args.words[2].start - args.words[1].end <= args.max_gap
    /\ args.words[3].start - args.words[2].end > args.max_gap
    /\ Len(ret) = 2
    /\ Len(ret[1]) = 2


(***************************************************************************)
(* choose_wrap_index                                                       *)
(***************************************************************************)
MinWrapWords == 4
MinWrapChars == 18
InitialBestScore == 1000000000

\* score of the split at i: abs(len(" ".join(words[:i])) - len(" ".join(words[i:])))
SplitScore(words, i) ==
    Abs(Len(JoinSpace(SubSeq(words, 1, i)))
        - Len(JoinSpace(SubSeq(words, i + 1, Len(words)))))

\* a mutant of Improves: a tie replaces the best index
ImprovesOrTies(score, best_score) == score <= best_score

\* if score < best_score
Improves(score, best_score) == score < best_score

\* for i in range(1, len(words)), from i with the best index and score so far
RECURSIVE wrap_loop(_, _, _, _)
wrap_loop(words, i, best_i, best_score) ==
    IF ~(i < Len(words)) THEN best_i
    ELSE LET score == SplitScore(words, i)
         IN  IF Improves(score, best_score)
             THEN wrap_loop(words, i + 1, i, score)
             ELSE wrap_loop(words, i + 1, best_i, best_score)

choose_wrap_index(words) ==
    IF Len(words) < MinWrapWords THEN None
    ELSE IF Len(JoinSpace(words)) <= MinWrapChars THEN None
    ELSE Some(wrap_loop(words, 1, 1, InitialBestScore))

(***************************************************************************)
(* Checking choose_wrap_index: every list up to MaxWrapLen words over      *)
(* WrapTexts (1, 3, 5 and 9 characters).                                   *)
(***************************************************************************)
MaxWrapLen == 6

WrapTexts ==
    { <<"a">>, <<"t", "h", "e">>, <<"q", "u", "i", "c", "k">>,
      <<"s", "u", "b", "t", "i", "t", "l", "e", "s">> }

InitWrap == \E ws \in SeqsUpTo(WrapTexts, MaxWrapLen) : InitFn("wrap", ws)

CallWrap ==
    /\ pc = "wrap"
    /\ ret' = choose_wrap_index(args)
    /\ pc' = "wrapped"
    /\ UNCHANGED <<args, ret2, mainVars>>

NextWrap == CallWrap

SpecWrap == InitWrap /\ [][NextWrap]_vars

\* len(left) and len(right) counted from the words' lengths: the characters
\* of the words plus one space between neighbours
RECURSIVE SumLen(_, _, _)
SumLen(words, a, b) == IF a > b THEN 0 ELSE Len(words[a]) + SumLen(words, a + 1, b)
LineLen(words, a, b) == IF a > b THEN 0 ELSE SumLen(words, a, b) + (b - a)
Imbalance(words, i) == Abs(LineLen(words, 1, i) - LineLen(words, i + 1, Len(words)))

Txt_the == <<"t", "h", "e">>
Txt_quick == <<"q", "u", "i", "c", "k">>
Txt_brown == <<"b", "r", "o", "w", "n">>
Txt_fox == <<"f", "o", "x">>
Txt_jumps == <<"j", "u", "m", "p", "s">>
Txt_today == <<"t", "o", "d", "a", "y">>

\* the example of the specification: the quick brown | fox jumps today
WrapExample ==
    choose_wrap_index(<<Txt_the, Txt_quick, Txt_brown, Txt_fox, Txt_jumps, Txt_today>>)
        = Some(3)

\* C6: choose_wrap_index returns no split exactly when the list has fewer
\* than 4 words or its words joined by single spaces have at most 18
\* characters; otherwise it returns the smallest index in 1..len-1 that
\* minimises the difference between the lengths of the two lines.
C6_WrapBalanced ==
    /\ WrapExample
    /\ pc = "wrapped" =>
          /\ ret = None <=> (Len(args) < 4 \/ LineLen(args, 1, Len(args)) <= 18)
          /\ ret # None =>
                /\ ret[1] \in 1..(Len(args) - 1)
                /\ \A j \in 1..(Len(args) - 1) :
                      /\ Imbalance(args, ret[1]) <= Imbalance(args, j)
                      /\ j < ret[1] => Imbalance(args, ret[1]) < Imbalance(args, j)

\* a wrapped list in which a later index ties with the one returned
C6_Witness ==
    /\ pc = "wrapped"
    /\ Len(args) = 6
    /\ ret # None
    /\ \E j \in 1..(Len(args) - 1) :
          j > ret[1] /\ Imbalance(args, j) = Imbalance(args, ret[1])


(***************************************************************************)
(* build_highlight_phrase                                                  *)
(***************************************************************************)
\* r"\N", the ASS line break
LineBreak == <<"\\", "N">>

\* "&H00FFFF00&" and "&H00FFFFFF&"
HighlightColor == <<"&", "H", "0", "0", "F", "F", "F", "F", "0", "0", "&">>
BaseColor == <<"&", "H", "0", "0", "F", "F", "F", "F", "F", "F", "&">>

\* rf"{{\c{color}}}"
ColorTag(color) == <<"{", "\\", "c">> \o color \o <<"}">>

\* the token of word w at 0-based index i
Token(w, i, active_idx, highlight_color, base_color) ==
    IF i = active_idx
    THEN ColorTag(highlight_color) \o w \o ColorTag(base_color)
    ELSE w

\* for i, w in enumerate(words), from index i with the list parts so far
RECURSIVE build_parts(_, _, _, _, _, _, _)
build_parts(words, i, active_idx, wrap_i, highlight_color, base_color, parts) ==
    IF ~(i < Len(words)) THEN parts
    ELSE LET token == Token(words[i + 1], i, active_idx, highlight_color, base_color)
             parts1 == Append(parts, token)
             parts2 == IF wrap_i # None /\ i = wrap_i[1] - 1
                       THEN Append(parts1, LineBreak)
                       ELSE parts1
         IN  build_parts(words, i + 1, active_idx, wrap_i, highlight_color,
                         base_color, parts2)

\* for t in parts, from the 1-based position k with the list out so far
RECURSIVE join_parts(_, _, _)
join_parts(parts, k, out) ==
    IF k > Len(parts) THEN out
    ELSE LET t == parts[k]
         IN  IF t = LineBreak
             THEN LET out1 == IF out # <<>>
                              THEN [out EXCEPT ![Len(out)] = RStrip(out[Len(out)])]
                              ELSE out
                  IN  join_parts(parts, k + 1, Append(out1, LineBreak))
             ELSE join_parts(parts, k + 1, Append(out, t \o <<" ">>))

build_highlight_phrase(word_objs, active_idx, highlight_color, base_color, pop_scale_x, force_two_lines) ==
    LET words == [k \in 1..Len(word_objs) |-> word_objs[k].word]
        wrap_i == IF force_two_lines THEN choose_wrap_index(words) ELSE None
        parts == build_parts(words, 0, active_idx, wrap_i, highlight_color,
                             base_color, <<>>)
    IN  Strip(Concat(join_parts(parts, 1, <<>>)))

(***************************************************************************)
(* Checking build_highlight_phrase: every group of 1..MaxBuildLen trimmed, *)
(* non-blank words over BuildTexts and every valid active index, with the  *)
(* colours and flags main passes.                                          *)
(***************************************************************************)
MaxBuildLen == 4
PopScaleX == 125

BuildTexts ==
    { <<"g", "o">>, <<"\\", "N">>, <<"q", "u", "i", "c", "k">>,
      <<"s", "u", "b", "t", "i", "t", "l", "e", "s">> }

InitBuild ==
    \E ts \in SeqsUpTo(BuildTexts, MaxBuildLen) :
        /\ ts # <<>>
        /\ \E a \in 0..(Len(ts) - 1) :
              InitFn("build", [word_objs |-> Timed(ts), active_idx |-> a])

CallBuild ==
    /\ pc = "build"
    /\ ret' = build_highlight_phrase(args.word_objs, args.active_idx,
                                     HighlightColor, BaseColor, PopScaleX, TRUE)
    /\ pc' = "built"
    /\ UNCHANGED <<args, ret2, mainVars>>

NextBuild == CallBuild

SpecBuild == InitBuild /\ [][NextBuild]_vars

(***************************************************************************)
(* Claims about build_highlight_phrase                                     *)
(***************************************************************************)
\* the claimed text of words[k..] (k 1-based): the words in order, word
\* active_idx between the two colour markers, one space between neighbours
\* except a bare line break before the word at the split index
RECURSIVE ClaimedRender(_, _, _, _)
ClaimedRender(words, k, active_idx, wrap_i) ==
    IF k > Len(words) THEN <<>>
    ELSE LET sep == IF k = 1 THEN <<>>
                    ELSE IF wrap_i = Some(k - 1) THEN LineBreak
                    ELSE <<" ">>
             span == IF k - 1 = active_idx
                     THEN ColorTag(HighlightColor) \o words[k] \o ColorTag(BaseColor)
                     ELSE words[k]
         IN  sep \o span \o ClaimedRender(words, k + 1, active_idx, wrap_i)

\* a \fs, \fscx or \fscy override occurs in text
HasScaleDirective(text) ==
    \E k \in 1..(Len(text) - 2) :
        text[k] = "\\" /\ text[k + 1] = "f" /\ text[k + 2] = "s"

RenderAsClaimed(word_objs, active_idx, text) ==
    /\ text = ClaimedRender(WordTexts(word_objs), 1, active_idx,
                            choose_wrap_index(WordTexts(word_objs)))
    /\ ~HasScaleDirective(text)

\* C8: for every group of non-blank words and every valid active index the
\* text is the group's words in order, separated by exactly one space except
\* at the split index, where the separator is a bare line break; word i alone
\* stands between the highlight-colour marker and the base-colour marker; no
\* scale or font-size directive appears.
C8_RenderAsClaimed ==
    pc = "built" => RenderAsClaimed(args.word_objs, args.active_idx, ret)

\* what does hold: the claim, for the groups none of whose inactive words is
\* the two characters \N
RenderAsClaimedUnlessLineBreakWord ==
    pc = "built" =>
        \/ \E k \in 1..Len(args.word_objs) :
              args.word_objs[k].word = LineBreak /\ k - 1 # args.active_idx
        \/ RenderAsClaimed(args.word_objs, args.active_idx, ret)


(***************************************************************************)
(* main                                                                    *)
(***************************************************************************)
\* round(t * 100) for t given in milliseconds: to the nearest integer, a
\* half to the even neighbour
RoundCs(t) ==
    LET q == t \div 10
        r == t % 10
    IN  IF r < 5 THEN q
        ELSE IF r > 5 THEN q + 1
        ELSE IF q % 2 = 0 THEN q ELSE q + 1

\* the fields h, m, s and cs that ass_time formats as h:mm:ss.cs
ass_time(t) ==
    LET cs0 == RoundCs(t)
        s0 == cs0 \div 100
        m0 == s0 \div 60
    IN  [h |-> m0 \div 60, m |-> m0 % 60, s |-> s0 % 60, cs |-> cs0 % 100]

\* rf"{{\an2\pos({pos_x},{pos_y})\fad({fad_in_ms},{fad_out_ms})}}" with
\* pos_x = 960, pos_y = 830, fad_in_ms = 30, fad_out_ms = 60
PosFadeTag ==
    <<"{", "\\", "a", "n", "2", "\\", "p", "o", "s", "(", "9", "6",
        "0", ",", "8", "3", "0", ")", "\\", "f", "a", "d", "(", "3",
        "0", ",", "6", "0", ")", "}">>

\* the words collected from the recognizer: cleaned, blank ones dropped
RECURSIVE CollectWords(_)
CollectWords(ws) ==
    IF ws = <<>> THEN <<>>
    ELSE LET ww == clean_word(Head(ws).word)
         IN  IF ww # <<>>
             THEN <<[word |-> ww, start |-> Head(ws).start, end |-> Head(ws).end]>>
                      \o CollectWords(Tail(ws))
             ELSE CollectWords(Tail(ws))

\* a mutant of DisplayEnd: the tail is added only when the window was not
\* extended to the minimum duration
DisplayEndTailOrClamp(g, i, min_dur, tail) ==
    LET start == g[i + 1].start
        end0 == IF i < Len(g) - 1 THEN g[i + 2].start ELSE g[i + 1].end
    IN  IF (end0 - start) < min_dur THEN start + min_dur ELSE end0 + tail

\* a mutant of DisplayEnd: every window ends at its own word's end
DisplayEndOwnEnd(g, i, min_dur, tail) ==
    LET start == g[i + 1].start
        end0 == g[i + 1].end
        end1 == IF (end0 - start) < min_dur THEN start + min_dur ELSE end0
    IN  end1 + tail

\* the value of end when the Dialogue of word i (0-based) of group g is written
DisplayEnd(g, i, min_dur, tail) ==
    LET start == g[i + 1].start
        end0 == IF i < Len(g) - 1 THEN g[i + 2].start ELSE g[i + 1].end
        end1 == IF (end0 - start) < min_dur THEN start + min_dur ELSE end0
    IN  end1 + tail

\* the Dialogue of word i (0-based) of group number n (0-based), g
Dialogue(n, g, i, min_dur, tail) ==
    LET start == g[i + 1].start
        end == DisplayEnd(g, i, min_dur, tail)
        phrase == build_highlight_phrase(g, i, HighlightColor, BaseColor,
                                         PopScaleX, TRUE)
    IN  [group |-> n, active_idx |-> i,
         display_start |-> start, display_end |-> end,
         start |-> ass_time(start), end |-> ass_time(end),
         style |-> "Phrase", text |-> PosFadeTag \o phrase]

(***************************************************************************)
(* The run of main on every list of up to MaxRawLen recognized words over  *)
(* RawWordSet, with min_word_dur and end_tail drawn from MinWordDurSet and *)
(* EndTailSet (the program's 0.10 s and 0.06 s among them).                *)
(***************************************************************************)
MaxRawLen == 3

DefaultMinWordDur == 100
DefaultEndTail == 60

\* " go" as the recognizer returns it, spoken from 0, 0.05, 0.5 or 1.3 s, its
\* end 0.04 s after or 0.01 s before its start; and one blank word
RawWordSet ==
    {[word |-> <<" ", "g", "o">>, start |-> b, end |-> b + d] :
        b \in {0, 50, 500, 1300}, d \in {0 - 10, 40}}
    \cup {[word |-> <<" ">>, start |-> 0, end |-> 40]}

MinWordDurSet == {0, DefaultMinWordDur}
EndTailSet == {0 - 20, 0, DefaultEndTail}

Init ==
    /\ pc = "collect"
    /\ raw \in SeqsUpTo(RawWordSet, MaxRawLen)
    /\ min_word_dur \in MinWordDurSet
    /\ end_tail \in EndTailSet
    /\ args = <<>>
    /\ ret = Idle
    /\ ret2 = Idle
    /\ all_words = <<>>
    /\ groups = <<>>
    /\ gi = 0
    /\ wi = 0
    /\ events = <<>>

fnVars == <<args, ret, ret2>>

\* for seg in segments: for w in seg.words: keep the non-blank cleaned words
Collect ==
    /\ pc = "collect"
    /\ all_words' = CollectWords(raw)
    /\ pc' = "merge"
    /\ UNCHANGED <<fnVars, raw, groups, gi, wi, events, min_word_dur, end_tail>>

\* all_words = merge_phrases(all_words)
Normalize ==
    /\ pc = "merge"
    /\ all_words' = merge_phrases(all_words)
    /\ pc' = "group"
    /\ UNCHANGED <<fnVars, raw, groups, gi, wi, events, min_word_dur, end_tail>>

\* groups = group_words(all_words, 7, 28, 0.65); the file is opened and the
\* header written
GroupAndOpen ==
    /\ pc = "group"
    /\ groups' = group_words(all_words, DefaultMaxWords, DefaultMaxChars,
                             DefaultMaxGap)
    /\ gi' = 0
    /\ wi' = 0
    /\ pc' = "write"
    /\ UNCHANGED <<fnVars, raw, all_words, events, min_word_dur, end_tail>>

\* the body of for i in range(len(g))
WriteDialogue ==
    /\ pc = "write"
    /\ gi < Len(groups)
    /\ wi < Len(groups[gi + 1])
    /\ events' = Append(events,
                        Dialogue(gi, groups[gi + 1], wi, min_word_dur, end_tail))
    /\ wi' = wi + 1
    /\ UNCHANGED <<fnVars, pc, raw, all_words, groups, gi, min_word_dur, end_tail>>

\* the inner loop is exhausted: for g in groups takes the next group
NextGroupOfMain ==
    /\ pc = "write"
    /\ gi < Len(groups)
    /\ ~(wi < Len(groups[gi + 1]))
    /\ gi' = gi + 1
    /\ wi' = 0
    /\ UNCHANGED <<fnVars, pc, raw, all_words, groups, events, min_word_dur, end_tail>>

\* the outer loop is exhausted: the file is closed
Finish ==
    /\ pc = "write"
    /\ ~(gi < Len(groups))
    /\ pc' = "done"
    /\ UNCHANGED <<fnVars, raw, all_words, groups, gi, wi, events, min_word_dur,
                   end_tail>>

Next == Collect \/ Normalize \/ GroupAndOpen \/ WriteDialogue \/ NextGroupOfMain
            \/ Finish

Spec == Init /\ [][Next]_vars


(***************************************************************************)
(* Claims about main                                                       *)
(***************************************************************************)
\* C7: the event of word i of a group starts at the word's start and ends at
\* max(natural_end, start + min_word_dur) + end_tail, natural_end being the
\* next word's start inside the group and the word's own end for the last
\* word; so every window lasts at least min_word_dur + end_tail.
C7_WindowClampPlusTail ==
    \A n \in 1..Len(events) :
        LET e == events[n]
            g == groups[e.group + 1]
            i == e.active_idx + 1
            natural_end == IF i < Len(g) THEN g[i + 1].start ELSE g[i].end
        IN  /\ e.display_start = g[i].start
            /\ e.display_end
                  = Max(natural_end, e.display_start + min_word_dur) + end_tail
            /\ e.display_end - e.display_start >= min_word_dur + end_tail

\* a clamped window that is not the group's last, and the window of a
\* one-word group whose word ends before it starts
C7_Witness ==
    /\ pc = "done"
    /\ min_word_dur = DefaultMinWordDur
    /\ end_tail = DefaultEndTail
    /\ \E n \in 1..Len(events) :
          /\ events[n].active_idx = 0
          /\ Len(groups[events[n].group + 1]) = 2
          /\ groups[events[n].group + 1][2].start - events[n].display_start = 50
          /\ events[n].display_end - events[n].display_start = 160
    /\ \E n \in 1..Len(events) :
          /\ Len(groups[events[n].group + 1]) = 1
          /\ groups[events[n].group + 1][1].end < events[n].display_start
          /\ events[n].display_end - events[n].display_start = 160

\* C9: empty input gives empty output at every stage: merge_phrases and
\* group_words of the empty list are empty, choose_wrap_index of the empty
\* list is no split, and a run of main whose recognizer returned no usable
\* word writes no Dialogue event.
C9_EmptyInEmptyOut ==
    /\ merge_phrases(<<>>) = <<>>
    /\ group_words(<<>>, DefaultMaxWords, DefaultMaxChars, DefaultMaxGap) = <<>>
    /\ choose_wrap_index(<<>>) = None
    /\ (pc # "collect" /\ \A k \in 1..Len(raw) : Strip(raw[k].word) = <<>>) =>
          /\ all_words = <<>>
          /\ groups = <<>>
          /\ events = <<>>
          /\ pc = "write" => gi = 0 /\ wi = 0

\* a run on blank words only has ended
C9_Witness ==
    /\ pc = "done"
    /\ Len(raw) = 2
    /\ all_words = <<>>
    /\ groups = <<>>
    /\ events = <<>>

\* the events of group number n (0-based), all written
EventsOf(n) == {k \in 1..Len(events) : events[k].group = n}
OnScreen(n, t) ==
    {k \in EventsOf(n) : events[k].display_start <= t /\ t < events[k].display_end}
FirstEventOf(n) == CHOOSE k \in EventsOf(n) : events[k].active_idx = 0
LastEventOf(n) ==
    CHOOSE k \in EventsOf(n) : events[k].active_idx = Len(groups[n + 1]) - 1

StartsIncrease(g) == \A j \in 1..(Len(g) - 1) : g[j].start < g[j + 1].start

\* the groups the claim is about, once all their events are written
Covered(n) ==
    /\ pc = "done"
    /\ min_word_dur >= 0
    /\ end_tail >= 0
    /\ StartsIncrease(groups[n + 1])

\* the instants (in ms) from the first event's start to the last event's end
Instants(n) ==
    events[FirstEventOf(n)].display_start
        .. (events[LastEventOf(n)].display_end - 1)

\* the original statement of C10: at every instant from the first event's
\* start to the last event's end exactly one event of the group is on screen
C10_ExactlyOneOnScreen ==
    \A n \in 0..(Len(groups) - 1) :
        Covered(n) => \A t \in Instants(n) : Cardinality(OnScreen(n, t)) = 1

\* C10 (amended): for a group whose word starts strictly increase, with
\* min_word_dur >= 0 and end_tail >= 0, at every instant from the first
\* event's start to the last event's end at least one event of the group is
\* on screen; each event stays on screen for at least end_tail after the next
\* event of its group has started, so two words are highlighted together
\* wherever end_tail or the minimum-duration clamp lengthens a window.
C10_NeverAbsentOverlapTail ==
    \A n \in 0..(Len(groups) - 1) :
        Covered(n) =>
            /\ \A t \in Instants(n) : Cardinality(OnScreen(n, t)) >= 1
            /\ \A k \in EventsOf(n) : \A l \in EventsOf(n) :
                  events[l].active_idx = events[k].active_idx + 1 =>
                      events[k].display_end - events[l].display_start >= end_tail

\* a three-word group written with the program's 0.10 s and 0.06 s
C10_Witness ==
    /\ pc = "done"
    /\ min_word_dur = DefaultMinWordDur
    /\ end_tail = DefaultEndTail
    /\ Len(groups) = 1
    /\ Len(groups[1]) = 3
    /\ Covered(0)
    /\ \E t \in Instants(0) : Cardinality(OnScreen(0, t)) = 2
    /\ \E t \in Instants(0) : Cardinality(OnScreen(0, t)) = 1

=============================================================================
